---- MODULE Spec2Model ----
(***************************************************************************)
(* Model of the HTTP facade over SNS / SQS / DynamoDB                      *)
(* (app/utils/http.py, app/utils/aws.py, app/routes/*.py).                 *)
(*                                                                         *)
(* Text is a sequence of one-character strings, so that splitting an ARN   *)
(* on ':' and parsing an integer are computed, not assumed.  Python's None *)
(* is the distinguished value None below, which is no text.                *)
(*                                                                         *)
(* One request is handled per step.  The state is the backend's topic      *)
(* listing and subscriptions plus the last request, its response and the   *)
(* backend calls the handler issued for it, in order, with the error       *)
(* response of the ClientError the backend raised, if it raised one.       *)
(* Queue and table contents stay in the backend: no handler branches on    *)
(* them.                                                                   *)
(***************************************************************************)
EXTENDS Integers, Sequences, FiniteSets, TLC

VARIABLES topicPages, subs, req, resp, calls, resolved, raised

vars == <<topicPages, subs, req, resp, calls, resolved, raised>>

\* ------------------------------------------------------------------ bounds
PageSize == 1

MaxPages == 2

MaxPageLen == 2

\* ------------------------------------------------------------------ text
None == <<"None">>

Falsy(v) == v = None \/ v = <<>>

Get(d, k) == IF k \in DOMAIN d THEN d[k] ELSE None

GetDefault(d, k, default) == IF k \in DOMAIN d THEN d[k] ELSE default

RECURSIVE LastColon(_, _)
LastColon(s, i) ==
    IF i = 0 THEN 0
    ELSE IF s[i] = ":" THEN i
    ELSE LastColon(s, i - 1)

\* arn.split(":")[-1]
SplitLast(arn) == SubSeq(arn, LastColon(arn, Len(arn)) + 1, Len(arn))

Digits == {"0", "1", "2", "3", "4", "5", "6", "7", "8", "9"}

DigitVal(c) ==
    CASE c = "0" -> 0 [] c = "1" -> 1 [] c = "2" -> 2 [] c = "3" -> 3
      [] c = "4" -> 4 [] c = "5" -> 5 [] c = "6" -> 6 [] c = "7" -> 7
      [] c = "8" -> 8 [] c = "9" -> 9

RECURSIVE DigitsValue(_, _)
DigitsValue(s, acc) ==
    IF s = <<>> THEN acc
    ELSE DigitsValue(Tail(s), acc * 10 + DigitVal(Head(s)))

AllDigits(s) == Len(s) > 0 /\ \A i \in 1..Len(s) : s[i] \in Digits

\* int(s) raises ValueError unless s is an optionally signed run of digits
IntOk(s) ==
    /\ s # None
    /\ Len(s) > 0
    /\ IF s[1] \in {"-", "+"} THEN AllDigits(Tail(s)) ELSE AllDigits(s)

IntValue(s) ==
    IF s[1] = "-" THEN 0 - DigitsValue(Tail(s), 0)
    ELSE IF s[1] = "+" THEN DigitsValue(Tail(s), 0)
    ELSE DigitsValue(s, 0)

Min(a, b) == IF a < b THEN a ELSE b

Max(a, b) == IF a > b THEN a ELSE b

\* ------------------------------------------------------------------ backend
SnsArnPrefix == <<"n", ":">>

SqsArnPrefix == <<"s", ":">>

SqsUrlPrefix == <<"u", "/">>

TopicArnOf(name) == SnsArnPrefix \o name

QueueArnOf(name) == SqsArnPrefix \o name

QueueUrlOf(name) == SqsUrlPrefix \o name

ExistingQueues == {<<"q">>}

ExistingItems == {<<"k">> :> <<"1">>}

ExistingTables == {<<"t">>}

RECURSIVE Flatten(_)
Flatten(pages) ==
    IF pages = <<>> THEN <<>> ELSE Head(pages) \o Flatten(Tail(pages))

RECURSIVE Paginate(_)
Paginate(entries) ==
    IF Len(entries) <= PageSize THEN <<entries>>
    ELSE <<SubSeq(entries, 1, PageSize)>>
             \o Paginate(SubSeq(entries, PageSize + 1, Len(entries)))

TopicArns(pages) ==
    {Flatten(pages)[i].TopicArn : i \in 1..Len(Flatten(pages))}

\* a call record; ok is FALSE when the backend raised ClientError for it
Call(op, args, ok) == [op |-> op, args |-> args, ok |-> ok]

\* ------------------------------------------------------------------ responses
Response(status, error, detail, value) ==
    [status |-> status, error |-> error, detail |-> detail, value |-> value]

Result(response, cs, res) == [resp |-> response, calls |-> cs, resolved |-> res]

NoResolve == [called |-> FALSE]

\* botocore's ClientError carries the parsed error response of the backend;
\* its string form is built from the message of that response, "Unknown"
\* when there is none
Unknown == <<"U", "n", "k", "n", "o", "w", "n">>

StrPrefix == <<"A", "n", " ", "e", "r", "r", "o", "r", ":", " ">>

str(e) ==
    StrPrefix \o GetDefault(GetDefault(e, "Error", <<>>), "Message", Unknown)

\* mutant: a backend error answered as "not found"
client_error_response_404(e, cs) ==
    Result(Response(404, "ClientError", <<>>, <<>>), cs, NoResolve)

\* mutant: the string form of the error, whether or not it has a message
client_error_response_str(e, cs) ==
    Result(Response(500, "ClientError", str(e), <<>>), cs, NoResolve)

\* app/utils/aws.py client_error_response:
\* e.response.get("Error", {}).get("Message", str(e)), 500
client_error_response(e, cs) ==
    Result(Response(500, "ClientError",
                    GetDefault(GetDefault(e, "Error", <<>>), "Message", str(e)),
                    <<>>),
           cs, NoResolve)

\* except Exception as e: return jsonify({"error": str(e)}), 500
exception_response(name, cs) ==
    Result(Response(500, name, <<>>, <<>>), cs, NoResolve)

\* ------------------------------------------------------------------ app/utils/http.py
\* request.get_json(silent=True): None for an absent body, a body that does not
\* parse and the JSON value null; any other JSON value is returned as parsed
JsonNone == [kind |-> "none", fields |-> <<>>]

get_json(body) ==
    IF body.kind \in {"absent", "malformed", "null"} THEN JsonNone ELSE body

\* data.get(...) raises AttributeError on a parsed value that is no dict
HasGet(data) == data.kind = "object"

RECURSIVE FirstMissingField(_, _)
FirstMissingField(fields, required_fields) ==
    IF required_fields = <<>> THEN None
    ELSE IF Get(fields, Head(required_fields)) = None
            \/ Get(fields, Head(required_fields)) = <<>>
         THEN <<Head(required_fields)>>
         ELSE FirstMissingField(fields, Tail(required_fields))

get_json_body(body, required_fields) ==
    LET data == get_json(body) IN
    IF data = JsonNone
    THEN [outcome |-> "error",
          resp |-> Response(400, "Invalid or missing JSON body", <<>>, <<>>)]
    ELSE IF required_fields # <<>> /\ ~HasGet(data)
    THEN [outcome |-> "raise", resp |-> Response(500, "AttributeError", <<>>, <<>>)]
    ELSE IF required_fields # <<>>
            /\ FirstMissingField(data.fields, required_fields) # None
    THEN [outcome |-> "error",
          resp |-> Response(400, "Missing required field in body: ",
                            FirstMissingField(data.fields, required_fields), <<>>)]
    ELSE [outcome |-> "ok", resp |-> Response(0, "", <<>>, <<>>)]

MissingParams(names, args) ==
    SelectSeq(names, LAMBDA n : Falsy(Get(args, n)))

missing_params_response(names, args) ==
    Result(Response(400, "Missing required query parameters: ",
                    MissingParams(names, args), <<>>),
           <<>>, NoResolve)

\* the decorator: the view runs only when no required parameter is missing
require_query_params(names, args, view) ==
    IF MissingParams(names, args) # <<>>
    THEN missing_params_response(names, args)
    ELSE view

\* ------------------------------------------------------------------ app/routes/sns.py
\* mutant: the last matching topic of the page instead of the first
RECURSIVE FirstMatch_last(_, _)
FirstMatch_last(topics, topic_name) ==
    IF topics = <<>> THEN None
    ELSE LET arn == Get(topics[Len(topics)], "TopicArn") IN
         IF ~Falsy(arn) /\ SplitLast(arn) = topic_name THEN arn
         ELSE FirstMatch_last(SubSeq(topics, 1, Len(topics) - 1), topic_name)

RECURSIVE FirstMatch(_, _)
FirstMatch(topics, topic_name) ==
    IF topics = <<>> THEN None
    ELSE LET arn == Get(Head(topics), "TopicArn") IN
         IF Falsy(arn) THEN FirstMatch(Tail(topics), topic_name)
         ELSE IF SplitLast(arn) = topic_name THEN arn
         ELSE FirstMatch(Tail(topics), topic_name)

\* the paginator fetches page i with the (base + i)-th backend call of the
\* request; fetched counts the pages asked for
RECURSIVE ScanPages(_, _, _, _, _)
ScanPages(pages, topic_name, i, base, failAt) ==
    IF i > Len(pages)
    THEN [outcome |-> "return", arn |-> None, fetched |-> i - 1]
    ELSE IF base + i = failAt
    THEN [outcome |-> "raise", arn |-> None, fetched |-> i]
    ELSE IF FirstMatch(pages[i], topic_name) # None
    THEN [outcome |-> "return", arn |-> FirstMatch(pages[i], topic_name),
          fetched |-> i]
    ELSE ScanPages(pages, topic_name, i + 1, base, failAt)

\* mutant: only the first page of the listing is scanned
resolve_topic_arn_first_page(pages, topic_name, base, failAt) ==
    ScanPages(SubSeq(pages, 1, 1), topic_name, 1, base, failAt)

resolve_topic_arn_by_name(pages, topic_name, base, failAt) ==
    ScanPages(pages, topic_name, 1, base, failAt)

ListCalls(r) ==
    [i \in 1..r.fetched |->
        Call("list_topics", [page |-> i], ~(r.outcome = "raise" /\ i = r.fetched))]

Resolved(topic_name, r) ==
    [called |-> TRUE, name |-> topic_name, outcome |-> r.outcome, arn |-> r.arn,
     fetched |-> r.fetched]

OptField(fields, k, as) ==
    IF Falsy(Get(fields, k)) THEN <<>> ELSE as :> Get(fields, k)

\* mutant: the topic is created before the body is checked
create_topic_unchecked(body, failAt, e) ==
    LET b == get_json_body(body, <<"name">>)
        c == Call("create_topic", [Name |-> Get(body.fields, "name")], failAt # 1)
    IN  IF ~c.ok THEN client_error_response(e, <<c>>)
        ELSE IF b.outcome = "error" THEN Result(b.resp, <<c>>, NoResolve)
        ELSE IF b.outcome = "raise" THEN exception_response(b.resp.error, <<c>>)
        ELSE Result(Response(201, "", <<>>,
                             [name |-> body.fields["name"],
                              topic_arn |-> TopicArnOf(body.fields["name"])]),
                    <<c>>, NoResolve)

create_topic(body, failAt, e) ==
    LET b == get_json_body(body, <<"name">>) IN
    IF b.outcome = "error" THEN Result(b.resp, <<>>, NoResolve)
    ELSE IF b.outcome = "raise" THEN exception_response(b.resp.error, <<>>)
    ELSE
    LET name == body.fields["name"]
        c == Call("create_topic", [Name |-> name], failAt # 1)
    IN  IF ~c.ok THEN client_error_response(e, <<c>>)
        ELSE Result(Response(201, "", <<>>,
                             [name |-> name, topic_arn |-> TopicArnOf(name)]),
                    <<c>>, NoResolve)

\* mutant: an unknown topic is created on the fly
publish_not_found_autocreate(topic_name, lc, res) ==
    Result(Response(201, "", <<>>, <<>>),
           lc \o <<Call("create_topic", [Name |-> topic_name], TRUE)>>, res)

publish_not_found(topic_name, lc, res) ==
    Result(Response(404, "Topic not found", topic_name, <<>>), lc, res)

publish_view(args, body, failAt, e) ==
    LET topic_name == args["topic_name"]
        r == resolve_topic_arn_by_name(topicPages, topic_name, 0, failAt)
        lc == ListCalls(r)
        res == Resolved(topic_name, r)
    IN
    IF r.outcome = "raise"
    THEN [client_error_response(e, lc) EXCEPT !.resolved = res]
    ELSE IF Falsy(r.arn)
    THEN publish_not_found(topic_name, lc, res)
    ELSE
    LET b == get_json_body(body, <<"message">>) IN
    IF b.outcome = "error" THEN Result(b.resp, lc, res)
    ELSE IF b.outcome = "raise"
    THEN [exception_response(b.resp.error, lc) EXCEPT !.resolved = res]
    ELSE
    LET publish_kwargs ==
            [TopicArn |-> r.arn, Message |-> body.fields["message"]]
                @@ OptField(body.fields, "subject", "Subject")
                @@ OptField(body.fields, "attributes", "MessageAttributes")
        c == Call("publish", publish_kwargs, failAt # Len(lc) + 1)
    IN  IF ~c.ok
        THEN [client_error_response(e, lc \o <<c>>) EXCEPT !.resolved = res]
        ELSE Result(Response(200, "", <<>>,
                             [topic_arn |-> r.arn, topic_name |-> topic_name]),
                    lc \o <<c>>, res)

publish_message(args, body, failAt, e) ==
    require_query_params(<<"topic_name">>, args,
                         publish_view(args, body, failAt, e))

list_topics(failAt, e) ==
    LET failed == failAt \in 1..Len(topicPages)
        fetched == IF failed THEN failAt ELSE Len(topicPages)
        lc == [i \in 1..fetched |->
                  Call("list_topics", [page |-> i], ~(failed /\ i = fetched))]
        withArn == SelectSeq(Flatten(topicPages),
                             LAMBDA t : ~Falsy(Get(t, "TopicArn")))
    IN  IF failed THEN client_error_response(e, lc)
        ELSE Result(Response(200, "", <<>>,
                             [i \in 1..Len(withArn) |->
                                 [topic_arn |-> withArn[i].TopicArn,
                                  name |-> SplitLast(withArn[i].TopicArn)]]),
                    lc, NoResolve)

\* ------------------------------------------------------------------ app/utils/aws.py
\* sqs.get_queue_url: the backend raises ClientError for a queue that does not exist
get_queue_url_by_name(queue_name, k, failAt) ==
    Call("get_queue_url", [QueueName |-> queue_name],
         k # failAt /\ queue_name \in ExistingQueues)

\* get_queue_url, then get_queue_attributes; the calls it issued, the last one
\* failed when the helper raised
resolve_queue_arn_by_name(queue_name, k, failAt) ==
    LET u == get_queue_url_by_name(queue_name, k, failAt)
        a == Call("get_queue_attributes",
                  [QueueUrl |-> QueueUrlOf(queue_name),
                   AttributeNames |-> <<"QueueArn">>],
                  k + 1 # failAt)
    IN  IF ~u.ok THEN [outcome |-> "raise", arn |-> None, calls |-> <<u>>]
        ELSE IF ~a.ok THEN [outcome |-> "raise", arn |-> None, calls |-> <<u, a>>]
        ELSE [outcome |-> "return", arn |-> QueueArnOf(queue_name),
              calls |-> <<u, a>>]

\* ------------------------------------------------------------------ create_subscription
TypeSqs == <<"s", "q", "s">>

TypeLambda == <<"l", "a", "m", "b", "d", "a">>

\* sns.subscribe: the backend raises ClientError for a topic that does not exist
subscribe_call(topic_arn, protocol, endpoint, k, failAt) ==
    Call("subscribe",
         [TopicArn |-> topic_arn, Protocol |-> protocol, Endpoint |-> endpoint,
          RawMessageDelivery |-> (protocol = TypeSqs)],
         k # failAt /\ topic_arn \in TopicArns(topicPages))

subscribe_step(topic_arn, protocol, endpoint, cs, res, failAt, e) ==
    LET c == subscribe_call(topic_arn, protocol, endpoint, Len(cs) + 1, failAt) IN
    IF ~c.ok THEN [client_error_response(e, cs \o <<c>>) EXCEPT !.resolved = res]
    ELSE Result(Response(201, "", <<>>,
                         [topic_arn |-> topic_arn, protocol |-> protocol,
                          endpoint |-> endpoint]),
                cs \o <<c>>, res)

\* mutant: any non-empty type is let through
valid_sub_type_any(sub_type) == ~Falsy(sub_type)

\* not (not sub_type or sub_type not in ("sqs", "lambda"))
valid_sub_type(sub_type) ==
    ~(Falsy(sub_type) \/ sub_type \notin {TypeSqs, TypeLambda})

\* mutant: a name is resolved even when the address came with the request
by_name_always(arn, name) == ~Falsy(name)

\* if not topic_arn and topic_name / if not queue_arn and queue_name
by_name(arn, name) == Falsy(arn) /\ ~Falsy(name)

create_subscription(body, failAt, e) ==
    LET b == get_json_body(body, <<>>) IN
    IF b.outcome = "error" THEN Result(b.resp, <<>>, NoResolve)
    ELSE IF ~HasGet(get_json(body)) THEN exception_response("AttributeError", <<>>)
    ELSE
    LET data == body.fields
        topic_name == Get(data, "topic_name")
        sub_type == Get(data, "type")
    IN
    IF ~valid_sub_type(sub_type)
    THEN Result(Response(400, "type must be 'sqs' or 'lambda'", <<>>, <<>>),
                <<>>, NoResolve)
    ELSE
    LET byName == by_name(Get(data, "topic_arn"), topic_name)
        r == resolve_topic_arn_by_name(topicPages, topic_name, 0, failAt)
        lc == IF byName THEN ListCalls(r) ELSE <<>>
        res == IF byName THEN Resolved(topic_name, r) ELSE NoResolve
        topic_arn == IF byName THEN r.arn ELSE Get(data, "topic_arn")
    IN
    IF byName /\ r.outcome = "raise"
    THEN [client_error_response(e, lc) EXCEPT !.resolved = res]
    ELSE IF Falsy(topic_arn)
    THEN Result(Response(400, "topic_arn or topic_name is required", <<>>, <<>>),
                lc, res)
    ELSE IF sub_type = TypeSqs
    THEN
        LET queue_name == Get(data, "queue_name")
            qByName == by_name(Get(data, "queue_arn"), queue_name)
            q == resolve_queue_arn_by_name(queue_name, Len(lc) + 1, failAt)
            qc == IF qByName THEN lc \o q.calls ELSE lc
            queue_arn == IF qByName THEN q.arn ELSE Get(data, "queue_arn")
        IN
        IF qByName /\ q.outcome = "raise"
        THEN [client_error_response(e, qc) EXCEPT !.resolved = res]
        ELSE IF Falsy(queue_arn)
        THEN Result(Response(400,
                             "queue_arn or queue_name is required for type 'sqs'",
                             <<>>, <<>>),
                    qc, res)
        ELSE subscribe_step(topic_arn, TypeSqs, queue_arn, qc, res, failAt, e)
    ELSE IF sub_type = TypeLambda
    THEN
        IF Falsy(Get(data, "lambda_arn"))
        THEN Result(Response(400, "lambda_arn is required for type 'lambda'",
                             <<>>, <<>>),
                    lc, res)
        ELSE subscribe_step(topic_arn, TypeLambda, Get(data, "lambda_arn"),
                            lc, res, failAt, e)
    \* neither branch binds protocol: sns.subscribe(Protocol=protocol) raises
    ELSE [exception_response("UnboundLocalError", lc) EXCEPT !.resolved = res]

\* ------------------------------------------------------------------ app/routes/sqs.py
send_view(args, body, failAt, e) ==
    LET queue_name == args["queue_name"]
        data == get_json(body)
    IN
    IF data = JsonNone
    THEN Result(Response(400, "Invalid or missing JSON body", <<>>, <<>>),
                <<>>, NoResolve)
    ELSE IF ~HasGet(data) THEN exception_response("AttributeError", <<>>)
    ELSE IF Falsy(Get(data.fields, "message"))
    THEN Result(Response(400, "Missing required field in body: ", <<"message">>,
                         <<>>),
                <<>>, NoResolve)
    ELSE
    LET delay_seconds == Get(data.fields, "delay_seconds")
        u == get_queue_url_by_name(queue_name, 1, failAt)
        send_kwargs ==
            [QueueUrl |-> QueueUrlOf(queue_name),
             MessageBody |-> data.fields["message"]]
                @@ (IF delay_seconds # None
                    THEN "DelaySeconds" :> IntValue(delay_seconds) ELSE <<>>)
                @@ OptField(data.fields, "attributes", "MessageAttributes")
        c == Call("send_message", send_kwargs, failAt # 2)
    IN
    IF ~u.ok THEN client_error_response(e, <<u>>)
    ELSE IF delay_seconds # None /\ ~IntOk(delay_seconds)
    THEN exception_response("ValueError", <<u>>)
    ELSE IF ~c.ok THEN client_error_response(e, <<u, c>>)
    ELSE Result(Response(200, "", <<>>, [queue_name |-> queue_name]),
                <<u, c>>, NoResolve)

send_message(args, body, failAt, e) ==
    require_query_params(<<"queue_name">>, args,
                         send_view(args, body, failAt, e))

\* mutant: the lower limit is forgotten
MaxNumberOfMessages_nofloor(max_number) == Min(IntValue(max_number), 10)

MaxNumberOfMessages(max_number) == Max(Min(IntValue(max_number), 10), 1)

WaitTimeSeconds(wait_time_seconds) == Max(Min(IntValue(wait_time_seconds), 20), 0)

\* mutant: the queue is looked up before the numbers are parsed
receive_view_lookup_first(args, failAt, e) ==
    LET queue_name == args["queue_name"]
        max_number == GetDefault(args, "max_number", <<"1">>)
        wait_time_seconds == GetDefault(args, "wait_time_seconds", <<"0">>)
        u == get_queue_url_by_name(queue_name, 1, failAt)
        c == Call("receive_message",
                  [QueueUrl |-> QueueUrlOf(queue_name),
                   MaxNumberOfMessages |-> MaxNumberOfMessages(max_number),
                   WaitTimeSeconds |-> WaitTimeSeconds(wait_time_seconds),
                   MessageAttributeNames |-> <<"All">>],
                  failAt # 2)
    IN
    IF ~u.ok THEN client_error_response(e, <<u>>)
    ELSE IF ~IntOk(max_number) \/ ~IntOk(wait_time_seconds)
    THEN exception_response("ValueError", <<u>>)
    ELSE IF ~c.ok THEN client_error_response(e, <<u, c>>)
    ELSE Result(Response(200, "", <<>>, [queue_name |-> queue_name]),
                <<u, c>>, NoResolve)

receive_view(args, failAt, e) ==
    LET queue_name == args["queue_name"]
        max_number == GetDefault(args, "max_number", <<"1">>)
        wait_time_seconds == GetDefault(args, "wait_time_seconds", <<"0">>)
        u == get_queue_url_by_name(queue_name, 1, failAt)
        c == Call("receive_message",
                  [QueueUrl |-> QueueUrlOf(queue_name),
                   MaxNumberOfMessages |-> MaxNumberOfMessages(max_number),
                   WaitTimeSeconds |-> WaitTimeSeconds(wait_time_seconds),
                   MessageAttributeNames |-> <<"All">>],
                  failAt # 2)
    IN
    IF ~IntOk(max_number) \/ ~IntOk(wait_time_seconds)
    THEN exception_response("ValueError", <<>>)
    ELSE IF ~u.ok THEN client_error_response(e, <<u>>)
    ELSE IF ~c.ok THEN client_error_response(e, <<u, c>>)
    ELSE Result(Response(200, "", <<>>, [queue_name |-> queue_name]),
                <<u, c>>, NoResolve)

receive_messages(args, failAt, e) ==
    require_query_params(<<"queue_name">>, args, receive_view(args, failAt, e))

list_queues(args, failAt, e) ==
    LET c == Call("list_queues", OptField(args, "prefix", "QueueNamePrefix"),
                  failAt # 1)
    IN  IF ~c.ok THEN client_error_response(e, <<c>>)
        ELSE Result(Response(200, "", <<>>, <<>>), <<c>>, NoResolve)

\* mutant: the queue is looked up before receipt_handle is checked
delete_view_lookup_first(args, failAt, e) ==
    LET u == get_queue_url_by_name(args["queue_name"], 1, failAt)
        c == Call("delete_message",
                  [QueueUrl |-> QueueUrlOf(args["queue_name"]),
                   ReceiptHandle |-> Get(args, "receipt_handle")],
                  failAt # 2)
    IN
    IF ~u.ok THEN client_error_response(e, <<u>>)
    ELSE IF Falsy(Get(args, "receipt_handle"))
    THEN Result(Response(400, "Missing required query parameter: ",
                         <<"receipt_handle">>, <<>>),
                <<u>>, NoResolve)
    ELSE IF ~c.ok THEN client_error_response(e, <<u, c>>)
    ELSE Result(Response(200, "", <<>>,
                         [queue_name |-> args["queue_name"],
                          receipt_handle |-> Get(args, "receipt_handle"),
                          deleted |-> TRUE]),
                <<u, c>>, NoResolve)

delete_view(args, failAt, e) ==
    LET queue_name == args["queue_name"]
        receipt_handle == Get(args, "receipt_handle")
        u == get_queue_url_by_name(queue_name, 1, failAt)
        c == Call("delete_message",
                  [QueueUrl |-> QueueUrlOf(queue_name),
                   ReceiptHandle |-> receipt_handle],
                  failAt # 2)
    IN
    IF Falsy(receipt_handle)
    THEN Result(Response(400, "Missing required query parameter: ",
                         <<"receipt_handle">>, <<>>),
                <<>>, NoResolve)
    ELSE IF ~u.ok THEN client_error_response(e, <<u>>)
    ELSE IF ~c.ok THEN client_error_response(e, <<u, c>>)
    ELSE Result(Response(200, "", <<>>,
                         [queue_name |-> queue_name,
                          receipt_handle |-> receipt_handle, deleted |-> TRUE]),
                <<u, c>>, NoResolve)

delete_message(args, failAt, e) ==
    require_query_params(<<"queue_name">>, args, delete_view(args, failAt, e))

\* mutant: the queue address is put together from the name, without a lookup
purge_view_built_url(args, failAt, e) ==
    LET c == Call("purge_queue",
                  [QueueUrl |-> SqsUrlPrefix \o args["queue_name"]],
                  failAt # 1 /\ args["queue_name"] \in ExistingQueues)
    IN  IF ~c.ok THEN client_error_response(e, <<c>>)
        ELSE Result(Response(200, "", <<>>,
                             [queue_name |-> args["queue_name"], purged |-> TRUE]),
                    <<c>>, NoResolve)

purge_view(args, failAt, e) ==
    LET queue_name == args["queue_name"]
        u == get_queue_url_by_name(queue_name, 1, failAt)
        c == Call("purge_queue", [QueueUrl |-> QueueUrlOf(queue_name)], failAt # 2)
    IN
    IF ~u.ok THEN client_error_response(e, <<u>>)
    ELSE IF ~c.ok THEN client_error_response(e, <<u, c>>)
    ELSE Result(Response(200, "", <<>>,
                         [queue_name |-> queue_name, purged |-> TRUE]),
                <<u, c>>, NoResolve)

purge_queue(args, failAt, e) ==
    require_query_params(<<"queue_name">>, args, purge_view(args, failAt, e))

\* ------------------------------------------------------------------ app/routes/dynamodb.py
get_all_items_view(args, failAt, e) ==
    LET table_name == args["table_name"]
        c == Call("scan", [TableName |-> table_name],
                  failAt # 1 /\ table_name \in ExistingTables)
    IN  IF ~c.ok THEN client_error_response(e, <<c>>)
        ELSE Result(Response(200, "", <<>>, [table_name |-> table_name]),
                    <<c>>, NoResolve)

get_all_items(args, failAt, e) ==
    require_query_params(<<"table_name">>, args,
                         get_all_items_view(args, failAt, e))

\* mutant: a sort key name alone is enough to put the sort key in the key
get_item_view_name_only(args, failAt, e) ==
    LET table_name == args["table_name"]
        sort_key_name == Get(args, "sort_key_name")
        sort_key_value == Get(args, "sort_key_value")
        key == (IF ~Falsy(sort_key_name)
                THEN sort_key_name :> sort_key_value ELSE <<>>)
                  @@ (args["partition_key_name"] :> args["partition_key_value"])
        c == Call("get_item", [TableName |-> table_name, Key |-> key],
                  failAt # 1 /\ table_name \in ExistingTables)
    IN  IF ~c.ok THEN client_error_response(e, <<c>>)
        ELSE IF key \notin ExistingItems
        THEN Result(Response(404, "Item not found.", <<>>, <<>>), <<c>>, NoResolve)
        ELSE Result(Response(200, "", <<>>, key), <<c>>, NoResolve)

get_item_view(args, failAt, e) ==
    LET table_name == args["table_name"]
        sort_key_name == Get(args, "sort_key_name")
        sort_key_value == Get(args, "sort_key_value")
        key == (IF ~Falsy(sort_key_name) /\ ~Falsy(sort_key_value)
                THEN sort_key_name :> sort_key_value ELSE <<>>)
                  @@ (args["partition_key_name"] :> args["partition_key_value"])
        c == Call("get_item", [TableName |-> table_name, Key |-> key],
                  failAt # 1 /\ table_name \in ExistingTables)
    IN  IF ~c.ok THEN client_error_response(e, <<c>>)
        ELSE IF key \notin ExistingItems
        THEN Result(Response(404, "Item not found.", <<>>, <<>>), <<c>>, NoResolve)
        ELSE Result(Response(200, "", <<>>, key), <<c>>, NoResolve)

get_item(args, failAt, e) ==
    require_query_params(
        <<"table_name", "partition_key_name", "partition_key_value">>, args,
        get_item_view(args, failAt, e))

\* ------------------------------------------------------------------ backend effects
\* mutant: create_topic adds a topic whether or not the name is taken
AfterCall_duplicate(st, c) ==
    IF ~c.ok THEN st
    ELSE IF c.op = "create_topic"
    THEN [st EXCEPT !.topicPages =
             Paginate(Append(Flatten(@), [TopicArn |-> TopicArnOf(c.args.Name)]))]
    ELSE IF c.op = "subscribe"
    THEN [st EXCEPT !.subs = @ \cup {c.args}]
    ELSE st

\* what a successful call does to the topics and subscriptions of the backend
AfterCall(st, c) ==
    IF ~c.ok THEN st
    ELSE IF c.op = "create_topic"
    THEN IF TopicArnOf(c.args.Name) \in TopicArns(st.topicPages) THEN st
         ELSE [st EXCEPT !.topicPages =
                  Paginate(Append(Flatten(@), [TopicArn |-> TopicArnOf(c.args.Name)]))]
    ELSE IF c.op = "subscribe"
    THEN [st EXCEPT !.subs = @ \cup {c.args}]
    ELSE st

RECURSIVE AfterCalls(_, _)
AfterCalls(st, cs) ==
    IF cs = <<>> THEN st ELSE AfterCalls(AfterCall(st, Head(cs)), Tail(cs))

Backend == [topicPages |-> topicPages, subs |-> subs]

\* ------------------------------------------------------------------ requests
NoBody == [kind |-> "absent", fields |-> <<>>]

NonObjectBodies ==
    {[kind |-> k, fields |-> <<>>] :
        k \in {"absent", "malformed", "null", "list", "string"}}

Object(fields) == [kind |-> "object", fields |-> fields]

\* a key that is absent, or present with one of the values
Opt(k, values) == {<<>>} \cup {k :> v : v \in values}

TopicNames == {<<"a">>, <<"A">>}

QueueNames == {<<"q">>, <<"z">>}

TableNames == {<<"t">>, <<"w">>}

MaxNumberTexts == {<<"-", "5">>, <<"7">>, <<"5", "0", "0">>, <<"x">>, <<>>}

WaitTimeTexts == {<<"-", "5">>, <<"1", "5">>, <<"5", "0", "0">>, <<"x">>}

\* each parameter alone over all its values, and both together
ReceiveParams ==
    {mn @@ wt : mn \in Opt("max_number", MaxNumberTexts), wt \in {<<>>}}
        \cup {mn @@ wt : mn \in {<<>>}, wt \in Opt("wait_time_seconds", WaitTimeTexts)}
        \cup {[max_number |-> <<"-", "5">>, wait_time_seconds |-> <<"-", "5">>],
              [max_number |-> <<"5", "0", "0">>,
               wait_time_seconds |-> <<"5", "0", "0">>],
              [max_number |-> <<"7">>, wait_time_seconds |-> <<"1", "5">>],
              [max_number |-> <<"x">>, wait_time_seconds |-> <<"1", "5">>],
              [max_number |-> <<"7">>, wait_time_seconds |-> <<"x">>]}

Request(endpoint, args, body) ==
    [endpoint |-> endpoint, args |-> args, body |-> body]

\* the calls of one request are numbered from 1; none issues more than a
\* listing call per page, two queue lookups and the data operation
FailPoints == 0..(Len(topicPages) + 3)

\* the error responses a ClientError may carry: with a message, with an
\* Error entry that has no message, and without an Error entry
BackendErrors ==
    {"Error" :> ("Message" :> <<"b">>), "Error" :> ("Code" :> <<"c">>), <<>>}

\* One request.  The backend may fail any one of the calls the handler would
\* issue (failAt = 0: none) and raises ClientError with any error response e
\* for the call that fails; the handler's result, outcome[failAt, e], becomes
\* the response, and its successful calls act on the backend.
Handle(endpoint, args, body, outcome) ==
    \E unfailed \in {outcome[0, <<>>]} :
        \E failAt \in 0..Len(unfailed.calls) :
            \E failed \in {IF failAt = 0 THEN unfailed ELSE outcome[failAt, <<>>]} :
                \E out \in IF \A i \in 1..Len(failed.calls) : failed.calls[i].ok
                           THEN {<<None, failed>>}
                           ELSE {<<<<>>, failed>>}
                                    \cup {<<e, outcome[failAt, e]>> :
                                            e \in BackendErrors \ {<<>>}} :
                    \E st \in {AfterCalls(Backend, out[2].calls)} :
                        /\ req' = Request(endpoint, args, body)
                        /\ resp' = out[2].resp
                        /\ calls' = out[2].calls
                        /\ resolved' = out[2].resolved
                        /\ raised' = out[1]
                        /\ topicPages' = st.topicPages
                        /\ subs' = st.subs

CreateTopic ==
    \E body \in NonObjectBodies
                  \cup {Object(f) : f \in Opt("name", TopicNames \cup {<<>>})} :
        Handle("create_topic", <<>>, body,
               [failAt \in FailPoints, e \in BackendErrors |->
                   create_topic(body, failAt, e)])

PublishMessage ==
    \E args \in Opt("topic_name", TopicNames \cup {<<>>}) :
      \E body \in IF Falsy(Get(args, "topic_name")) THEN {NoBody}
                  ELSE NonObjectBodies
                         \cup {Object(m) : m \in Opt("message", {<<"m">>, <<>>})}
                         \cup {Object([message |-> <<"m">>, subject |-> <<"s">>])} :
        Handle("publish_message", args, body,
               [failAt \in FailPoints, e \in BackendErrors |->
                   publish_message(args, body, failAt, e)])

ListTopics ==
    Handle("list_topics", <<>>, NoBody,
           [failAt \in FailPoints, e \in BackendErrors |->
                   list_topics(failAt, e)])

\* the topic by address, by name, by both, by neither, by an empty address
\* with a name, and by the address of no topic with the name of another
TopicRefs ==
    {ta @@ tn : ta \in Opt("topic_arn", {TopicArnOf(<<"a">>)}),
                tn \in Opt("topic_name", {<<"a">>})}
        \cup {[topic_arn |-> <<>>, topic_name |-> <<"a">>],
              [topic_arn |-> TopicArnOf(<<"b">>), topic_name |-> <<"a">>]}

\* every topic reference with a queue name; every queue reference with a
\* topic address; a topic name without a queue and with the name of no queue
SqsTargets ==
    {tr @@ [queue_name |-> <<"q">>] : tr \in TopicRefs}
        \cup {[topic_arn |-> TopicArnOf(<<"a">>)] @@ qa @@ qn :
                qa \in Opt("queue_arn", {QueueArnOf(<<"q">>)}),
                qn \in Opt("queue_name", QueueNames)}
        \cup {[topic_name |-> <<"a">>],
              [topic_name |-> <<"a">>, queue_name |-> <<"z">>]}

\* every topic reference with a function address; a topic without one, and
\* with a queue name in its place
LambdaTargets ==
    {tr @@ [lambda_arn |-> <<"f">>] : tr \in TopicRefs}
        \cup {[topic_arn |-> TopicArnOf(<<"a">>)], [topic_name |-> <<"a">>],
              [topic_arn |-> TopicArnOf(<<"a">>), queue_name |-> <<"q">>]}

SubscriptionBodies ==
    NonObjectBodies
        \cup {Object(t @@ tn) :
                t \in Opt("type", {<<"S", "Q", "S">>, <<>>}),
                tn \in Opt("topic_name", {<<"a">>})}
        \cup {Object([type |-> TypeSqs] @@ f) : f \in SqsTargets}
        \cup {Object([type |-> TypeLambda] @@ f) : f \in LambdaTargets}

CreateSubscription ==
    \E body \in SubscriptionBodies :
        Handle("create_subscription", <<>>, body,
               [failAt \in FailPoints, e \in BackendErrors |->
                   create_subscription(body, failAt, e)])

SendMessage ==
    \E args \in Opt("queue_name", QueueNames \cup {<<>>}) :
      \E body \in IF Falsy(Get(args, "queue_name")) THEN {NoBody}
                  ELSE NonObjectBodies
                         \cup {Object(m) : m \in Opt("message", {<<"m">>, <<>>})}
                         \cup {Object([message |-> <<"m">>] @@ d) :
                                 d \in Opt("delay_seconds",
                                           {<<"7">>, <<"x">>, <<>>})} :
        Handle("send_message", args, body,
               [failAt \in FailPoints, e \in BackendErrors |->
                   send_message(args, body, failAt, e)])

ReceiveMessages ==
    \E qn \in Opt("queue_name", QueueNames) :
      \E p \in IF qn = <<>> THEN {<<>>} ELSE ReceiveParams :
        Handle("receive_messages", qn @@ p, NoBody,
               [failAt \in FailPoints, e \in BackendErrors |->
                   receive_messages(qn @@ p, failAt, e)])

ListQueues ==
    \E args \in Opt("prefix", {<<"q">>, <<>>}) :
        Handle("list_queues", args, NoBody,
               [failAt \in FailPoints, e \in BackendErrors |->
                   list_queues(args, failAt, e)])

DeleteMessage ==
    \E qn \in Opt("queue_name", QueueNames \cup {<<>>}),
       rh \in Opt("receipt_handle", {<<"h">>, <<>>}) :
        Handle("delete_message", qn @@ rh, NoBody,
               [failAt \in FailPoints, e \in BackendErrors |->
                   delete_message(qn @@ rh, failAt, e)])

PurgeQueue ==
    \E args \in Opt("queue_name", QueueNames \cup {<<>>}) :
        Handle("purge_queue", args, NoBody,
               [failAt \in FailPoints, e \in BackendErrors |->
                   purge_queue(args, failAt, e)])

GetAllItems ==
    \E args \in Opt("table_name", TableNames \cup {<<>>}) :
        Handle("get_all_items", args, NoBody,
               [failAt \in FailPoints, e \in BackendErrors |->
                   get_all_items(args, failAt, e)])

GetItem ==
    \E tn \in Opt("table_name", {<<"t">>}),
       pn \in Opt("partition_key_name", {<<"k">>}),
       pv \in Opt("partition_key_value", {<<"1">>, <<"2">>}) :
      \E sn \in IF <<>> \in {tn, pn, pv} THEN {<<>>}
                 ELSE Opt("sort_key_name", {<<"r">>}),
         sv \in IF <<>> \in {tn, pn, pv} THEN {<<>>}
                 ELSE Opt("sort_key_value", {<<"1">>}) :
        Handle("get_item", tn @@ pn @@ pv @@ sn @@ sv, NoBody,
               [failAt \in FailPoints, e \in BackendErrors |->
                   get_item(tn @@ pn @@ pv @@ sn @@ sv, failAt, e)])

\* the backend as the service finds it: without topics, or with one
InitialTopics == {<<>>, <<[TopicArn |-> TopicArnOf(<<"a">>)]>>}

Init ==
    /\ topicPages \in {Paginate(topics) : topics \in InitialTopics}
    /\ subs = {}
    /\ req = Request("none", <<>>, NoBody)
    /\ resp = Response(0, "", <<>>, <<>>)
    /\ calls = <<>>
    /\ resolved = NoResolve
    /\ raised = None

Next ==
    \/ CreateTopic
    \/ PublishMessage
    \/ ListTopics
    \/ CreateSubscription
    \/ SendMessage
    \/ ReceiveMessages
    \/ ListQueues
    \/ DeleteMessage
    \/ PurgeQueue
    \/ GetAllItems
    \/ GetItem

Spec == Init /\ [][Next]_vars

\* ------------------------------------------------------------------ the resolver alone
\* resolve_topic_arn_by_name over any listing the backend may return: pages of
\* any length, topics with the same last segment under different addresses,
\* and entries without a TopicArn
ListingEntries ==
    {<<>>, [TopicArn |-> <<"n", ":", "a">>], [TopicArn |-> <<"m", ":", "a">>]}

ListingPages == UNION {[1..m -> ListingEntries] : m \in 0..MaxPageLen}

Listings == UNION {[1..n -> ListingPages] : n \in 1..MaxPages}

InitResolve ==
    /\ topicPages \in Listings
    /\ subs = {}
    /\ req = Request("none", <<>>, NoBody)
    /\ resp = Response(0, "", <<>>, <<>>)
    /\ calls = <<>>
    /\ resolved = NoResolve
    /\ raised = None

ResolveTopic ==
    \E topic_name \in TopicNames, failAt \in 0..Len(topicPages) :
        \E r \in {resolve_topic_arn_by_name(topicPages, topic_name, 0, failAt)} :
            /\ req' = Request("resolve_topic_arn_by_name",
                              [topic_name |-> topic_name], NoBody)
            /\ resolved' = Resolved(topic_name, r)
            /\ calls' = ListCalls(r)
            /\ UNCHANGED <<topicPages, subs, resp, raised>>

NextResolve == ResolveTopic

SpecResolve == InitResolve /\ [][NextResolve]_vars

\* ------------------------------------------------------------------ claims
\* n is the part of arn after its last ':' (all of arn when it has none)
IsShortName(arn, n) ==
    \E k \in 0..Len(arn) :
        /\ k = 0 \/ arn[k] = ":"
        /\ \A i \in (k + 1)..Len(arn) : arn[i] # ":"
        /\ n = SubSeq(arn, k + 1, Len(arn))

\* the entries of the listing in listing order: page order, then position
Listed == Flatten(topicPages)

HasAddress(t) == "TopicArn" \in DOMAIN t /\ t.TopicArn # <<>>

Matches(t, n) == HasAddress(t) /\ IsShortName(t.TopicArn, n)

Returned == resolved.called /\ resolved.outcome = "return"

\* C3: when resolve_topic_arn_by_name returns an address, the part of the
\* address after its last ':' is the requested name exactly, and the address is
\* that of the first entry in listing order whose short name is the requested
\* name; entries without an address are passed over.
C3_FirstExactMatch ==
    (Returned /\ resolved.arn # None) =>
        /\ IsShortName(resolved.arn, resolved.name)
        /\ \E k \in 1..Len(Listed) :
            /\ Matches(Listed[k], resolved.name)
            /\ Listed[k].TopicArn = resolved.arn
            /\ \A j \in 1..(k - 1) : ~Matches(Listed[j], resolved.name)

\* a later entry with the same short name and another address exists, and an
\* entry without an address precedes the match
C3_Witness ==
    /\ Returned
    /\ resolved.arn # None
    /\ \E k \in 1..Len(Listed) :
        /\ Matches(Listed[k], resolved.name)
        /\ Listed[k].TopicArn # resolved.arn
    /\ ~HasAddress(Listed[1])

\* C4: resolve_topic_arn_by_name returns None exactly when no topic on any
\* page has the requested short name, and then every page has been fetched.
C4_AbsentOnlyAfterAllPages ==
    Returned =>
        /\ resolved.arn = None
             <=> (\A k \in 1..Len(Listed) : ~Matches(Listed[k], resolved.name))
        /\ resolved.arn = None => resolved.fetched = Len(topicPages)

\* a match on the last of several pages is found after all of them were fetched
C4_Witness ==
    /\ Returned
    /\ Len(topicPages) > 1
    /\ resolved.fetched = Len(topicPages)
    /\ resolved.arn # None
    /\ \A i \in 1..(Len(topicPages) - 1) :
        \A j \in 1..Len(topicPages[i]) :
            ~Matches(topicPages[i][j], resolved.name)

\* absence reported after several pages, none of them empty
C4_WitnessAbsent ==
    /\ Returned
    /\ Len(topicPages) > 1
    /\ resolved.arn = None
    /\ \A i \in 1..Len(topicPages) : topicPages[i] # <<>>

\* ------------------------------------------------------------------ claims on requests
Ops(cs) == {cs[i].op : i \in 1..Len(cs)}

\* the calls that change the backend, and the calls that read or write data
MutatingOps ==
    {"create_topic", "publish", "subscribe", "send_message", "delete_message",
     "purge_queue"}

DataOps == MutatingOps \cup {"receive_message", "scan", "get_item"}

AllOk(cs) == \A i \in 1..Len(cs) : cs[i].ok

Fields == IF req.body.kind = "object" THEN req.body.fields ELSE <<>>

Present(d, k) == k \in DOMAIN d /\ d[k] # <<>>

\* C1 as stated: a 400 response means that no backend call was issued.
C1_NoCallBefore400 == resp.status = 400 => calls = <<>>

\* C1 as amended: the only backend calls that precede a 400 are topic listing
\* calls that succeeded, and only in publish and create-subscription, which
\* check the body (publish) and the topic and target references
\* (create-subscription) after resolving the topic; a missing query parameter
\* and an invalid type are answered before any call, and no other endpoint
\* issues a call before a 400.
C1_OnlyListingBefore400 ==
    resp.status = 400 =>
        /\ \A i \in 1..Len(calls) : calls[i].op = "list_topics" /\ calls[i].ok
        /\ calls # <<>> =>
             req.endpoint \in {"publish_message", "create_subscription"}
        /\ resp.error \in {"Missing required query parameters: ",
                           "Missing required query parameter: ",
                           "type must be 'sqs' or 'lambda'"}
             => calls = <<>>

\* publish answers 400 for its body after the topic listing found the topic
C1_Witness ==
    /\ req.endpoint = "publish_message"
    /\ resp.status = 400
    /\ resp.error = "Invalid or missing JSON body"
    /\ calls # <<>>
    /\ resolved.called /\ resolved.arn # None

\* the required query parameters of each endpoint (the HTTP surface table)
RequiredQueryParams(endpoint) ==
    CASE endpoint = "get_all_items" -> {"table_name"}
      [] endpoint = "get_item" ->
            {"table_name", "partition_key_name", "partition_key_value"}
      [] endpoint = "publish_message" -> {"topic_name"}
      [] endpoint \in {"send_message", "receive_messages", "purge_queue"} ->
            {"queue_name"}
      [] endpoint = "delete_message" -> {"queue_name", "receipt_handle"}
      [] OTHER -> {}

MissingRequired ==
    {n \in RequiredQueryParams(req.endpoint) : ~Present(req.args, n)}

\* C2: when required query parameters are missing or empty, the response is
\* one 400 whose message names every one of them.
C2_NamesEveryMissing ==
    MissingRequired # {} =>
        /\ resp.status = 400
        /\ {resp.detail[i] : i \in 1..Len(resp.detail)} = MissingRequired

\* C2 for the endpoints whose required parameters are all declared to the
\* decorator: every endpoint but delete_message
C2_DecoratorNamesEveryMissing ==
    (MissingRequired # {} /\ req.endpoint # "delete_message") =>
        /\ resp.status = 400
        /\ resp.error = "Missing required query parameters: "
        /\ {resp.detail[i] : i \in 1..Len(resp.detail)} = MissingRequired

\* C5: a publish whose topic_name matches no topic of the listing issues no
\* publish and no create-topic call and leaves the backend's topics as they
\* were; it is answered 404 "Topic not found" when the listing succeeded (500
\* when a listing call failed).
C5_PublishUnknownTopic ==
    [][(/\ req'.endpoint = "publish_message"
        /\ Present(req'.args, "topic_name")
        /\ \A k \in 1..Len(Listed) : ~Matches(Listed[k], req'.args.topic_name))
       => /\ topicPages' = topicPages
          /\ Ops(calls') \cap {"publish", "create_topic"} = {}
          /\ AllOk(calls') => resp'.status = 404 /\ resp'.error = "Topic not found"
          /\ ~AllOk(calls') => resp'.status = 500]_vars

\* a 404 although a topic exists that differs from the requested name in
\* case only
C5_Witness ==
    /\ req.endpoint = "publish_message"
    /\ resp.status = 404
    /\ calls # <<>> /\ AllOk(calls)
    /\ req.args.topic_name = <<"a">>
    /\ \E k \in 1..Len(Listed) : Matches(Listed[k], <<"A">>)

ArgInt(k, default) ==
    IF k \in DOMAIN req.args THEN IntValue(req.args[k]) ELSE default

ArgIsInt(k) == k \in DOMAIN req.args => IntOk(req.args[k])

\* C6: for a receive request with integer (or absent) max_number and
\* wait_time_seconds, the backend is asked for min(max(max_number, 1), 10)
\* messages and a wait of min(max(wait_time_seconds, 0), 20), the defaults
\* being 1 and 0; the request is answered 200 unless a backend call failed.
C6_ReceiveClamped ==
    (/\ req.endpoint = "receive_messages"
     /\ Present(req.args, "queue_name")
     /\ ArgIsInt("max_number")
     /\ ArgIsInt("wait_time_seconds"))
    => /\ \A i \in 1..Len(calls) :
            calls[i].op = "receive_message" =>
                /\ calls[i].args.MaxNumberOfMessages
                     = Min(Max(ArgInt("max_number", 1), 1), 10)
                /\ calls[i].args.WaitTimeSeconds
                     = Min(Max(ArgInt("wait_time_seconds", 0), 0), 20)
       /\ AllOk(calls) => resp.status = 200 /\ "receive_message" \in Ops(calls)
       /\ resp.status # 200 => resp.status = 500 /\ ~AllOk(calls)

\* max_number and wait_time_seconds both above their ranges
C6_Witness ==
    /\ req.endpoint = "receive_messages"
    /\ resp.status = 200
    /\ ArgIsInt("max_number") /\ ArgInt("max_number", 1) > 10
    /\ ArgIsInt("wait_time_seconds") /\ ArgInt("wait_time_seconds", 0) > 20
    /\ \E i \in 1..Len(calls) :
        /\ calls[i].op = "receive_message"
        /\ calls[i].args.MaxNumberOfMessages = 10
        /\ calls[i].args.WaitTimeSeconds = 20

BodyEndpoints ==
    {"create_topic", "publish_message", "create_subscription", "send_message"}

\* the request got as far as reading its body: its query parameters are there,
\* publish has found its topic, and no backend call failed
BodyRead ==
    /\ MissingRequired = {}
    /\ AllOk(calls)
    /\ req.endpoint = "publish_message" => resolved.called /\ resolved.arn # None

\* C7: a body that is absent, does not parse, or parses to a JSON value that
\* is no object is answered with HTTP 400.
C7_InvalidBodyIs400 ==
    (req.endpoint \in BodyEndpoints /\ req.body.kind # "object" /\ BodyRead)
        => resp.status = 400

\* the part of C7 the code keeps: a body that is absent, does not parse or is
\* the JSON value null is answered 400 "Invalid or missing JSON body"
C7_MissingBodyIs400 ==
    (/\ req.endpoint \in BodyEndpoints
     /\ req.body.kind \in {"absent", "malformed", "null"}
     /\ BodyRead)
        => resp.status = 400 /\ resp.error = "Invalid or missing JSON body"

QueueEndpoints ==
    {"send_message", "receive_messages", "delete_message", "purge_queue",
     "create_subscription"}

\* the backend was asked for the address of a queue that does not exist
UnknownQueueLookedUp ==
    /\ req.endpoint \in QueueEndpoints
    /\ \E i \in 1..Len(calls) :
        /\ calls[i].op = "get_queue_url"
        /\ calls[i].args.QueueName \notin ExistingQueues

\* C8 as stated: when the backend reports that no queue of that name exists,
\* the request is answered 404.
C8_UnknownQueueIs404 == UnknownQueueLookedUp => resp.status = 404

\* C8 as amended: when the backend reports that no queue of that name exists,
\* the lookup is the last call of the request, no call on the queue follows,
\* and the request is answered as a backend error, 500.
C8_UnknownQueueIs500 ==
    UnknownQueueLookedUp =>
        /\ resp.status = 500
        /\ resp.error = "ClientError"
        /\ calls[Len(calls)].op = "get_queue_url"
        /\ ~calls[Len(calls)].ok
        /\ Ops(calls) \cap DataOps = {}

\* a purge of a queue that does not exist
C8_Witness ==
    /\ req.endpoint = "purge_queue"
    /\ UnknownQueueLookedUp
    /\ resp.status = 500

\* C9: where a topic is resolved by name (publish, create-subscription), a
\* listing call that fails is answered 500 and a listing that succeeds
\* without a match is answered 404.
C9_ListingFailureVersusNoMatch ==
    (req.endpoint \in {"publish_message", "create_subscription"}
        /\ resolved.called)
    => /\ resolved.outcome = "raise" => resp.status = 500
       /\ (resolved.outcome = "return" /\ resolved.arn = None)
            => resp.status = 404

\* the part of C9 the code keeps: publish
C9_PublishListingFailureVersusNoMatch ==
    (req.endpoint = "publish_message" /\ resolved.called)
    => /\ resolved.outcome = "raise" => resp.status = 500
       /\ (resolved.outcome = "return" /\ resolved.arn = None)
            => resp.status = 404

TargetPresent ==
    \/ Get(Fields, "type") = TypeSqs
         /\ (Present(Fields, "queue_arn") \/ Present(Fields, "queue_name"))
    \/ Get(Fields, "type") = TypeLambda /\ Present(Fields, "lambda_arn")

\* C10: create-subscription issues subscribe only if type is "sqs" or "lambda"
\* and the target reference of that type is there; a request whose JSON object
\* lacks a supported type or the target reference issues no subscribe call,
\* leaves the subscriptions as they were and is answered 400 (500 when a
\* backend call of the topic resolution failed).
C10_SubscribeOnlyWithTypeAndTarget ==
    [][req'.endpoint = "create_subscription" =>
        LET fields == IF req'.body.kind = "object" THEN req'.body.fields ELSE <<>>
            type == Get(fields, "type")
            target ==
                \/ type = TypeSqs
                     /\ (Present(fields, "queue_arn") \/ Present(fields, "queue_name"))
                \/ type = TypeLambda /\ Present(fields, "lambda_arn")
        IN  /\ "subscribe" \in Ops(calls') => target
            /\ subs' # subs => target
            /\ (req'.body.kind = "object" /\ ~target) =>
                 /\ AllOk(calls') => resp'.status = 400
                 /\ ~AllOk(calls') => resp'.status = 500
                 /\ Ops(calls') \subseteq {"list_topics"}]_vars

\* a queue subscription without any queue reference, refused after the topic
\* was resolved
C10_Witness ==
    /\ req.endpoint = "create_subscription"
    /\ Get(Fields, "type") = TypeSqs
    /\ ~TargetPresent
    /\ resolved.called /\ resolved.arn # None
    /\ resp.status = 400

\* a subscription was created
C10_WitnessSubscribed ==
    /\ req.endpoint = "create_subscription"
    /\ resp.status = 201
    /\ subs # {}

HasMessage(e) == "Error" \in DOMAIN e /\ "Message" \in DOMAIN e.Error

\* C11: when a backend call of a request fails, that call is the last call of
\* the request and the only one that failed, and the response is HTTP 500
\* whose error is the message of the backend's error response, or the string
\* form of the error when the response has no message; the response carries
\* no success value (a failed purge has no purged flag).
C11_BackendFailureIs500 ==
    ~AllOk(calls) =>
        /\ resp.status = 500
        /\ resp.error = "ClientError"
        /\ HasMessage(raised) => resp.detail = raised.Error.Message
        /\ ~HasMessage(raised) => resp.detail = str(raised)
        /\ resp.value = <<>>
        /\ ~calls[Len(calls)].ok
        /\ \A i \in 1..(Len(calls) - 1) : calls[i].ok

\* a purge that the backend refuses with an error that has no message, after
\* the queue was found
C11_Witness ==
    /\ req.endpoint = "purge_queue"
    /\ Len(calls) = 2
    /\ calls[2].op = "purge_queue" /\ ~calls[2].ok
    /\ ~HasMessage(raised)
    /\ resp.status = 500
    /\ resp.detail = str(raised)

\* a publish that the backend refuses with a message, after the listing
C11_WitnessMessage ==
    /\ req.endpoint = "publish_message"
    /\ calls # <<>>
    /\ calls[Len(calls)].op = "publish" /\ ~calls[Len(calls)].ok
    /\ HasMessage(raised)
    /\ resp.detail = raised.Error.Message

\* the positions of the listing whose topic has the short name n
Named(listing, n) == {k \in 1..Len(listing) : Matches(listing[k], n)}

AddressedOps ==
    {"publish", "subscribe", "send_message", "receive_message",
     "delete_message", "purge_queue"}

\* the native addresses a call was given
Addresses(c) ==
    IF c.op = "publish" THEN {c.args.TopicArn}
    ELSE IF c.op = "subscribe" THEN {c.args.TopicArn, c.args.Endpoint}
    ELSE {c.args.QueueUrl}

\* the queue names the backend resolved to an address before the i-th call
LookedUp(i) ==
    {calls[j].args.QueueName :
        j \in {k \in 1..(i - 1) : calls[k].op = "get_queue_url" /\ calls[k].ok}}

\* the addresses the backend returned to the request before its i-th call:
\* the topic found by the listing, the address of each queue looked up, and
\* the long identifier of each queue whose attributes were read
ObtainedBefore(i) ==
    (IF /\ resolved.called /\ resolved.outcome = "return" /\ resolved.arn # None
        /\ resolved.fetched < i
        /\ resolved.arn \in TopicArns(topicPages)
     THEN {resolved.arn} ELSE {})
    \cup {QueueUrlOf(n) : n \in LookedUp(i)}
    \cup {QueueArnOf(n) :
            n \in {m \in LookedUp(i) :
                     \E j \in 1..(i - 1) :
                        /\ calls[j].op = "get_queue_attributes" /\ calls[j].ok
                        /\ calls[j].args.QueueUrl = QueueUrlOf(m)}}

\* C13 as stated: every address given to a data operation was returned by the
\* backend to a successful call earlier in the same request.
C13_AddressesObtainedInRequest ==
    \A i \in 1..Len(calls) :
        calls[i].op \in AddressedOps =>
            Addresses(calls[i]) \subseteq ObtainedBefore(i)

\* the addresses the caller put in the body of a create-subscription request
SuppliedAddresses ==
    {Fields[k] :
        k \in DOMAIN Fields \cap {"topic_arn", "queue_arn", "lambda_arn"}}

\* C13 as amended: every address given to publish, send, receive, delete and
\* purge was returned by the backend to a successful call earlier in the same
\* request; every address given to subscribe was either returned so or is the
\* topic_arn, queue_arn or lambda_arn of the request body, unchanged.
C13_AddressesObtainedOrSupplied ==
    \A i \in 1..Len(calls) :
        /\ calls[i].op \in AddressedOps \ {"subscribe"} =>
             Addresses(calls[i]) \subseteq ObtainedBefore(i)
        /\ calls[i].op = "subscribe" =>
             Addresses(calls[i])
                 \subseteq ObtainedBefore(i) \cup SuppliedAddresses

\* subscribe is given the caller's topic address, which no call of the
\* request returned, and a queue address the backend returned
C13_Witness ==
    /\ req.endpoint = "create_subscription"
    /\ Ops(calls) = {"get_queue_url", "get_queue_attributes", "subscribe"}
    /\ calls[3].args.TopicArn = Fields.topic_arn
    /\ calls[3].args.TopicArn \notin ObtainedBefore(3)
    /\ calls[3].args.Endpoint \in ObtainedBefore(3)

\* a purge is given the address the lookup returned
C13_WitnessPurge ==
    /\ req.endpoint = "purge_queue"
    /\ Len(calls) = 2
    /\ calls[2].op = "purge_queue"
    /\ calls[2].args.QueueUrl \in ObtainedBefore(2)

\* the calls that resolve a name to an address
ResolutionOps == {"list_topics", "get_queue_url", "get_queue_attributes"}

\* the request passed every check its handler makes of its parameters and body
Validated ==
    /\ MissingRequired = {}
    /\ req.endpoint \in BodyEndpoints => req.body.kind = "object"
    /\ req.endpoint = "create_topic" => Present(Fields, "name")
    /\ req.endpoint \in {"publish_message", "send_message"} =>
         Present(Fields, "message")
    /\ req.endpoint = "send_message" =>
         ("delay_seconds" \in DOMAIN Fields => IntOk(Fields.delay_seconds))
    /\ req.endpoint = "create_subscription" =>
         /\ TargetPresent
         /\ Present(Fields, "topic_arn") \/ Present(Fields, "topic_name")

\* C14: a call that changes the backend is the last call of its request, so a
\* request issues at most one; every call before it is a name resolution that
\* succeeded, the request passed every check of its parameters and body, and
\* the response is the success of the endpoint, or 500 when the call failed.
C14_MutationLastAfterChecks ==
    \A i \in 1..Len(calls) :
        calls[i].op \in MutatingOps =>
            /\ i = Len(calls)
            /\ \A j \in 1..(i - 1) :
                 calls[j].op \in ResolutionOps /\ calls[j].ok
            /\ Validated
            /\ calls[i].ok => resp.status \in {200, 201}
            /\ ~calls[i].ok => resp.status = 500

\* a subscription created after the topic and the queue were resolved by name
C14_Witness ==
    /\ req.endpoint = "create_subscription"
    /\ Len(calls) >= 4
    /\ calls[Len(calls)].op = "subscribe"
    /\ ResolutionOps \subseteq Ops(calls)
    /\ resp.status = 201

\* a send whose delay is no integer stops after the queue lookup
C14_WitnessStopped ==
    /\ req.endpoint = "send_message"
    /\ ~Validated
    /\ Ops(calls) = {"get_queue_url"}
    /\ AllOk(calls)
    /\ resp.status = 500

SubscribeCalls == {i \in 1..Len(calls) : calls[i].op = "subscribe"}

\* C15: a create-subscription whose body has a non-empty topic_arn issues no
\* topic listing, whatever its topic_name, and one whose body has a non-empty
\* queue_arn issues no queue lookup, whatever its queue_name; the subscribe
\* call carries the address of the body unchanged, and it is issued whenever
\* the type and its target are valid and the other reference was resolved,
\* without any check that the topic or queue of that address exists.
C15_SuppliedAddressFirst ==
    (req.endpoint = "create_subscription" /\ req.body.kind = "object") =>
        /\ Present(Fields, "topic_arn") =>
             /\ "list_topics" \notin Ops(calls)
             /\ ~resolved.called
             /\ \A i \in SubscribeCalls :
                  calls[i].args.TopicArn = Fields.topic_arn
        /\ Present(Fields, "queue_arn") =>
             /\ Ops(calls) \cap {"get_queue_url", "get_queue_attributes"} = {}
             /\ \A i \in SubscribeCalls :
                  calls[i].args.Protocol = TypeSqs =>
                      calls[i].args.Endpoint = Fields.queue_arn
        /\ (/\ Present(Fields, "topic_arn")
            /\ \/ Get(Fields, "type") = TypeSqs
                    /\ Present(Fields, "queue_arn")
               \/ Get(Fields, "type") = TypeLambda
                    /\ Present(Fields, "lambda_arn"))
           => Ops(calls) = {"subscribe"} /\ Len(calls) = 1

\* the address of no topic, sent with the name of a topic that exists, is
\* what subscribe is given, and the backend refuses it
C15_Witness ==
    /\ req.endpoint = "create_subscription"
    /\ Present(Fields, "topic_arn") /\ Present(Fields, "topic_name")
    /\ Fields.topic_arn \notin TopicArns(topicPages)
    /\ TopicArnOf(Fields.topic_name) \in TopicArns(topicPages)
    /\ SubscribeCalls # {}
    /\ \A i \in SubscribeCalls : calls[i].args.TopicArn = Fields.topic_arn
    /\ resp.status = 500

\* a queue address sent with the name of no queue: subscribed without lookup
C15_WitnessQueue ==
    /\ req.endpoint = "create_subscription"
    /\ Present(Fields, "queue_arn")
    /\ Get(Fields, "queue_name") \notin ExistingQueues \cup {None}
    /\ calls # <<>>
    /\ calls[Len(calls)].op = "subscribe"
    /\ calls[Len(calls)].args.Endpoint = Fields.queue_arn
    /\ resp.status = 201

\* C16: a receive whose max_number or wait_time_seconds is present and is no
\* integer (the empty text included) is answered 500, not 400, without any
\* backend call; a send whose delay_seconds is present and is no integer is
\* answered 500 after the queue lookup, its only call, and nothing is sent.
C16_UncoercibleNumberIs500 ==
    /\ (/\ req.endpoint = "receive_messages"
        /\ Present(req.args, "queue_name")
        /\ ~ArgIsInt("max_number") \/ ~ArgIsInt("wait_time_seconds"))
       => /\ resp.status = 500
          /\ resp.error = "ValueError"
          /\ calls = <<>>
    /\ (/\ req.endpoint = "send_message"
        /\ Present(req.args, "queue_name")
        /\ Present(Fields, "message")
        /\ "delay_seconds" \in DOMAIN Fields
        /\ ~IntOk(Fields.delay_seconds))
       => /\ resp.status = 500
          /\ Len(calls) = 1
          /\ calls[1].op = "get_queue_url"
          /\ calls[1].ok => resp.error = "ValueError"

\* a receive with an empty max_number
C16_Witness ==
    /\ req.endpoint = "receive_messages"
    /\ Get(req.args, "max_number") = <<>>
    /\ resp.status = 500
    /\ calls = <<>>

\* a send with a delay that is no number, to a queue that exists
C16_WitnessSend ==
    /\ req.endpoint = "send_message"
    /\ "delay_seconds" \in DOMAIN Fields
    /\ ~IntOk(Fields.delay_seconds)
    /\ Len(calls) = 1 /\ calls[1].op = "get_queue_url" /\ calls[1].ok
    /\ resp.status = 500
    /\ resp.error = "ValueError"

SortKeyGiven ==
    Present(req.args, "sort_key_name") /\ Present(req.args, "sort_key_value")

PartitionKey == req.args.partition_key_name :> req.args.partition_key_value

\* C17: a get-item request with its required parameters reads the table
\* once; the key of the read is the partition key together with the sort
\* key when sort_key_name and sort_key_value are both present and non-empty,
\* and the partition key alone otherwise; the answer is 404 "Item not found."
\* exactly when the read succeeds without an item, 200 when it succeeds with
\* one and 500 when it fails.
C17_SortKeyOnlyWhenBoth ==
    (req.endpoint = "get_item" /\ MissingRequired = {}) =>
        /\ Len(calls) = 1
        /\ calls[1].op = "get_item"
        /\ SortKeyGiven =>
             calls[1].args.Key
                = PartitionKey
                    @@ (req.args.sort_key_name :> req.args.sort_key_value)
        /\ ~SortKeyGiven => calls[1].args.Key = PartitionKey
        /\ resp.status = 404
             <=> (calls[1].ok /\ calls[1].args.Key \notin ExistingItems)
        /\ resp.status = 404 => resp.error = "Item not found."
        /\ (calls[1].ok /\ calls[1].args.Key \in ExistingItems) =>
             resp.status = 200
        /\ ~calls[1].ok => resp.status = 500

\* a sort key name without a value is left out, and the item is found by its
\* partition key
C17_Witness ==
    /\ req.endpoint = "get_item"
    /\ Present(req.args, "sort_key_name")
    /\ ~Present(req.args, "sort_key_value")
    /\ calls # <<>>
    /\ calls[1].args.Key = PartitionKey
    /\ resp.status = 200

\* both given: the key has the sort key, and no item has that key
C17_WitnessNotFound ==
    /\ req.endpoint = "get_item"
    /\ SortKeyGiven
    /\ calls # <<>>
    /\ calls[1].ok
    /\ req.args.sort_key_name \in DOMAIN calls[1].args.Key
    /\ resp.status = 404

====
